---------------------------- MODULE Spec2Model ----------------------------
(***************************************************************************)
(* MemeMind: document ingestion, deletion and retrieval over a relational  *)
(* store (source_documents, text_chunks), a blob store and a vector index. *)
(*                                                                         *)
(* The repository carries three generations of the same pipeline:          *)
(*   "dt"  app/tasks/document_task.py      + app/source_doc/*   (S3)       *)
(*   "dp"  app/tasks/utils/doc_process.py  + app/source_doc/*   (S3)       *)
(*   "ip"  app/chains/ingestion_pipeline.py + app/services/*    (local)    *)
(* All are modelled; the generation that is deployed is chosen at start    *)
(* (gen) and every run, delete and retrieve executes its code.  "dt" is    *)
(* the body of the registered task process_document_task; it has no        *)
(* vector step and no retrieval of its own.                                *)
(***************************************************************************)
EXTENDS Integers, Sequences, FiniteSets, TLC

(***************************************************************************)
(* Bounds of the model                                                     *)
(***************************************************************************)
MaxDocs == 2
MaxDeliveries == 2
MaxDeletes == 1
NumWorkers == 2
MaxTopK == 3
NumScores == 3

(***************************************************************************)
(* Program constants                                                       *)
(***************************************************************************)
CHUNK_SIZE == 512
CHUNK_OVERLAP == 50
INITIAL_RETRIEVAL_TOP_K == 50
FINAL_CONTEXT_TOP_N == 5
TASK_CHUNK_SIZE == 1000
TASK_CHUNK_OVERLAP == 100
Null == -1

DocIds == 1..MaxDocs
Workers == 1..NumWorkers
Variants == {"dp", "ip"}

\* the pipeline that runs and the document service it goes with
Generations ==
  {[run |-> v, del |-> v] : v \in Variants} \cup {[run |-> "dt", del |-> "dp"]}

NoDoc == [status |-> "absent"]
NullStr == "null"

\* uploaded files: declared mime type, length of the text the parser
\* extracts and normalises, and whether that text is whitespace only
Uploads ==
  { [mime |-> "text/plain", len |-> 0, blank |-> TRUE],
    [mime |-> "text/plain", len |-> 513, blank |-> FALSE],
    [mime |-> "application/x-unknown", len |-> 513, blank |-> FALSE] }

SupportedMime ==
  { "text/plain", "application/pdf",
    "application/vnd.openxmlformats-officedocument.wordprocessingml.document",
    "application/vnd.openxmlformats-officedocument.presentationml.presentation",
    "application/vnd.openxmlformats-officedocument.spreadsheetml.sheet",
    "text/markdown" }

VARIABLES gen, docs, blobs, chunks, nextChunkId, vectors, nextDoc,
          queue, deliveries, sent, run, del, deletes, ret

vars == <<gen, docs, blobs, chunks, nextChunkId, vectors, nextDoc,
          queue, deliveries, sent, run, del, deletes, ret>>

(***************************************************************************)
(* Pure helpers                                                            *)
(***************************************************************************)
RECURSIVE Str(_)
\* str(chunk.id): decimal digits, most significant first
Str(n) == IF n < 10 THEN <<n>> ELSE Str(n \div 10) \o <<n % 10>>

RECURSIVE IntOf(_)
\* int(str_id)
IntOf(s) == IF Len(s) = 0 THEN 0
            ELSE IntOf(SubSeq(s, 1, Len(s) - 1)) * 10 + s[Len(s)]

Exists(d) == docs[d] # NoDoc

ChunksOf(cs, d) == {c \in cs : c.doc = d}

ChunkIds(cs) == {c.id : c \in cs}

\* ceil(a / b) for b > 0
CeilDiv(a, b) == (a + b - 1) \div b

\* number of chunks the slicing loop of doc_process.py yields
NumChunksSlicing(len) ==
  IF len > CHUNK_SIZE THEN CeilDiv(len, CHUNK_SIZE - CHUNK_OVERLAP)
  ELSE IF len > 0 THEN 1 ELSE 0

\* number of pieces RecursiveCharacterTextSplitter(chunk_size, chunk_overlap)
\* cuts a text of that length into: windows of CHUNK_SIZE that share
\* CHUNK_OVERLAP characters
NumChunksSplitter(len) ==
  IF len = 0 THEN 0
  ELSE IF len <= CHUNK_SIZE THEN 1
  ELSE CeilDiv(len - CHUNK_OVERLAP, CHUNK_SIZE - CHUNK_OVERLAP)

\* number of chunks the slicing loop of document_task.py yields, with its
\* own chunk_size = 1000 and chunk_overlap = 100
NumChunksTask(len) ==
  IF len > TASK_CHUNK_SIZE
  THEN CeilDiv(len, TASK_CHUNK_SIZE - TASK_CHUNK_OVERLAP)
  ELSE IF len > 0 THEN 1 ELSE 0

\* parse_and_clean_document: "unsupported", or the length of the stripped text
ParsedLen(content) == IF content.blank THEN 0 ELSE content.len

(***************************************************************************)
(* Relational store                                                        *)
(***************************************************************************)
\* a row created with the status of a document whose task is running
NewDocumentProcessing(content) ==
  [status |-> "processing", processed_at |-> Null, error_message |-> NullStr,
   number_of_chunks |-> Null, content |-> content]

NewDocument(content) ==
  [status |-> "uploaded", processed_at |-> Null, error_message |-> NullStr,
   number_of_chunks |-> Null, content |-> content]

\* SourceDocumentUpdate(status=, processed_at=, number_of_chunks=,
\* error_message=) sets all four fields explicitly, so
\* model_dump(exclude_unset=True) carries all four and update() writes them.
UpdatePayload(status, processed_at, number_of_chunks, error_message) ==
  [status |-> status, processed_at |-> processed_at,
   number_of_chunks |-> number_of_chunks, error_message |-> error_message]

\* an update that writes only the fields given a value (exclude_none)
RepositoryUpdateExcludeNone(rec, payload) ==
  [rec EXCEPT
     !.status = payload.status,
     !.processed_at =
        IF payload.processed_at = Null THEN @ ELSE payload.processed_at,
     !.number_of_chunks =
        IF payload.number_of_chunks = Null THEN @ ELSE payload.number_of_chunks,
     !.error_message =
        IF payload.error_message = NullStr THEN @ ELSE payload.error_message]

RepositoryUpdate(rec, payload) ==
  [rec EXCEPT !.status = payload.status,
              !.processed_at = payload.processed_at,
              !.number_of_chunks = payload.number_of_chunks,
              !.error_message = payload.error_message]

\* update_document_processing_info(document_id, status, number_of_chunks,
\* error_message, set_processed_now)
UpdateInfo(rec, status, number_of_chunks, error_message, set_processed_now) ==
  RepositoryUpdate(rec,
    UpdatePayload(status, IF set_processed_now THEN 1 ELSE Null,
                  number_of_chunks, error_message))

\* foreign key text_chunks.source_document_id -> source_documents.id
ForeignKeyHolds(ds, d) == ds[d] # NoDoc

\* the chunk rows when nothing cascades
CascadeDeleteNone(cs, d) == cs

\* ondelete="CASCADE" / cascade="all, delete-orphan"
CascadeDelete(cs, d) == {c \in cs : c.doc # d}

\* the rows of a run filed under the first document, whichever the run's is
NewChunkRowsOfFirst(d, n, first) ==
  {[id |-> first + i, doc |-> 1, seq |-> i] : i \in 0..(n - 1)}

\* bulk insert of n chunk rows for document d, ids from the sequence
NewChunkRows(d, n, first) ==
  {[id |-> first + i, doc |-> d, seq |-> i] : i \in 0..(n - 1)}

\* TextChunkRepository.create_bulk: the rows are added to the table
CreateBulk(cs, rows) == cs \cup rows

\* TextChunkRepository.get_by_ids: the rows whose id is in the list
GetByIds(cs, ids) == {c \in cs : c.id \in ids}

\* chunk_service.get_chunk_ids_by_document_id
GetChunkIdsByDocumentId(cs, d) == ChunkIds(ChunksOf(cs, d))

NewChunkIds(n, first) == [i \in 1..n |-> first + i - 1]

\* entries written to the vector index for the created chunk rows
VectorEntries(d, ids) ==
  {[key |-> Str(ids[i]), doc |-> d] : i \in 1..Len(ids)}

NoContent == [mime |-> "", len |-> 0, blank |-> TRUE]

\* a worker's run: position, document, what the run holds in local variables
\* (document_response.content_type and the parsed text, number of pieces,
\* created_chunk_db_objects, the exception in flight) and the state of the
\* session `db` its pipeline writes go through
IdleRun == [pc |-> "idle", doc |-> 0, content |-> NoContent,
            n |-> 0, created |-> <<>>, exc |-> NullStr, session |-> "ok"]

\* the delete request in flight: position, document, whether the service has
\* a chunk service, chunk_ids_to_delete, what it has removed so far,
\* whether it has logged a failure of the vector store
IdleDel == [pc |-> "idle", doc |-> 0, wired |-> FALSE,
            ids |-> {}, vecRemoved |-> FALSE, blobRemoved |-> FALSE,
            logged |-> FALSE, exc |-> NullStr]

\* the last retrieve or ask call: which function served it, its arguments,
\* the ids of the candidates handed to the reranker, whether the rerank
\* returned, and what the call returned; then what the serving process did
\* on the way: the step that raised, where the embedding and the rerank
\* function ran ("thread": asyncio.to_thread, "inline": on the event loop),
\* whether the reranker model scored anything, how the LLM call ended and
\* the answer of an ask call
NoRet == [kind |-> "none", outcome |-> "ok", query |-> <<>>, top_k |-> 0,
          cands |-> {}, reranked |-> FALSE, result |-> <<>>,
          fault |-> "none", embed_lane |-> "none", rerank_lane |-> "none",
          invoked |-> FALSE, llm |-> "none", answer |-> "none"]

\* gen: the generation of the code that is deployed; the pipeline (gen.run)
\* and the document service it imports (gen.del) belong together
Init ==
  /\ gen \in Generations
  /\ docs = [d \in DocIds |-> NoDoc]
  /\ blobs = {}
  /\ chunks = {}
  /\ nextChunkId = 1
  /\ vectors = {}
  /\ nextDoc = 1
  /\ queue = [d \in DocIds |-> 0]
  /\ deliveries = 0
  /\ sent = {}
  /\ run = [w \in Workers |-> IdleRun]
  /\ del = IdleDel
  /\ deletes = 0
  /\ ret = NoRet

\* the except block of add_document: os.remove / s3 delete_object of the
\* blob just stored; a failure of the removal is only logged
BlobsAfterCleanup(bs, d, cleanupOk) == IF cleanupOk THEN bs \ {d} ELSE bs


(***************************************************************************)
(* add_document: store the blob, create the row (status uploaded), send    *)
(* the processing task.  create and send_task share one try block: when    *)
(* send_task raises after the row was committed (sendOk = FALSE), the      *)
(* except block removes the blob and the row stays.  A failure of create   *)
(* leaves neither and changes nothing here.  MaxDeliveries bounds the      *)
(* sends attempted, failed ones included.                                  *)
(***************************************************************************)
AddDocument(content, sendOk, cleanupOk) ==
  /\ nextDoc <= MaxDocs
  /\ docs' = [docs EXCEPT ![nextDoc] = NewDocument(content)]
  /\ nextDoc' = nextDoc + 1
  /\ deliveries < MaxDeliveries
  /\ deliveries' = deliveries + 1
  /\ IF sendOk
     THEN /\ blobs' = blobs \cup {nextDoc}
          /\ queue' = [queue EXCEPT ![nextDoc] = @ + 1]
          /\ sent' = sent \cup {nextDoc}
     ELSE /\ blobs' = BlobsAfterCleanup(blobs \cup {nextDoc}, nextDoc, cleanupOk)
          /\ UNCHANGED <<queue, sent>>
  /\ UNCHANGED <<gen, chunks, nextChunkId, vectors, run, del, deletes, ret>>

(***************************************************************************)
(* One ingestion run on worker w.  An action is one awaited call that      *)
(* touches the stores, the local computation that precedes it, and the     *)
(* handling of its failure.                                                *)
(***************************************************************************)
SetRun(w, rec) == run' = [run EXCEPT ![w] = rec]

\* a failed commit or flush leaves the session of the run unusable: no
\* caller rolls it back
Aborted(r) == [r EXCEPT !.session = "aborted"]

\* control passes to the top-level except block with exception exc
ToHandler(r, exc) == [r EXCEPT !.pc = "handler", !.exc = exc]

\* the run returned or raised: its local variables are gone
Finish(r, pc) == [IdleRun EXCEPT !.pc = pc, !.doc = r.doc, !.exc = r.exc]

\* the write an inner except-block of doc_process.py does before re-raising;
\* the update itself raises NotFound when the row is gone
InnerErrorWrite(w, msg, number_of_chunks, exc) ==
  LET d == run[w].doc IN
  IF Exists(d)
  THEN /\ docs' = [docs EXCEPT ![d] =
                     UpdateInfo(@, "error", number_of_chunks, msg, FALSE)]
       /\ SetRun(w, ToHandler(run[w], exc))
  ELSE /\ docs' = docs
       /\ SetRun(w, ToHandler(run[w], "NotFound"))

\* a run that returns on empty content without recording the error
ErrorReturnNoWrite(w, msg) ==
  /\ docs' = docs
  /\ SetRun(w, Finish(run[w], "returned_error"))

\* a run that returns after writing status error (empty content)
ErrorReturn(w, msg) ==
  LET d == run[w].doc IN
  /\ docs' = [docs EXCEPT ![d] = UpdateInfo(@, "error", Null, msg, FALSE)]
  /\ SetRun(w, Finish(run[w], "returned_error"))

RunFinished(r) == r.pc \in {"returned_ok", "returned_error", "raised", "crashed"}

RunInProgress(r) ==
  r.pc \in {"set_processing", "load", "store_sql", "vector", "ready", "handler"}

WorkerFree(w) == run[w].pc = "idle" \/ RunFinished(run[w])

\* process_document_task for document d is picked up by the first free
\* worker: either the message add_document sent, or (at-least-once
\* delivery) the same message handed out again.  doc_process.py starts with
\* get_document.
TaskStart(w, d) ==
  /\ WorkerFree(w)
  /\ \A u \in Workers : u < w => ~WorkerFree(u)
  /\ d < nextDoc
  /\ IF queue[d] > 0
     THEN /\ queue' = [queue EXCEPT ![d] = @ - 1]
          /\ deliveries' = deliveries
     ELSE /\ d \in sent
          /\ deliveries < MaxDeliveries
          /\ deliveries' = deliveries + 1
          /\ queue' = queue
  /\ sent' = sent
  /\ LET r == [IdleRun EXCEPT !.pc = "set_processing", !.doc = d] IN
     IF gen.run = "ip" THEN SetRun(w, r)
     ELSE IF Exists(d)
     THEN SetRun(w, [r EXCEPT !.content = docs[d].content])
     ELSE SetRun(w, ToHandler(r, "NotFound"))
  /\ UNCHANGED <<gen, docs, blobs, chunks, nextChunkId, vectors, nextDoc,
                 del, deletes, ret>>

\* a run whose processing write is not committed before it goes on
ProcessingWriteDeferred(row) == row

\* the committed write of status processing at the head of a run
ProcessingWrite(row) == UpdateInfo(row, "processing", Null, NullStr, FALSE)

\* update_document_processing_info(status="processing"); ip reads the row
\* (doc_record) right after it
SetProcessing(w, dbOk) ==
  /\ run[w].pc = "set_processing"
  /\ LET d == run[w].doc IN
     IF ~dbOk
     THEN /\ docs' = docs
          /\ SetRun(w, ToHandler(Aborted(run[w]), "DbError"))
     ELSE IF Exists(d)
     THEN /\ docs' = [docs EXCEPT ![d] = ProcessingWrite(@)]
          /\ SetRun(w, [run[w] EXCEPT !.pc = "load",
                                      !.content = docs[d].content])
     ELSE /\ docs' = docs
          /\ SetRun(w, ToHandler(run[w], "NotFound"))
  /\ UNCHANGED <<gen, blobs, chunks, nextChunkId, vectors, nextDoc, queue,
                 deliveries, sent, del, deletes, ret>>

\* dp steps 3-5: s3 get_object, parse_and_clean_document, the empty-text
\* check and the slicing into chunks
LoadAndParse(w, ioOk, parseOk) ==
  /\ run[w].pc = "load"
  /\ gen.run = "dp"
  /\ LET d == run[w].doc
         c == run[w].content
     IN
     IF ~(ioOk /\ d \in blobs)
     THEN InnerErrorWrite(w, "S3 download failed", Null, "S3Error")
     ELSE IF ~(parseOk /\ c.mime \in SupportedMime)
     THEN InnerErrorWrite(w, "parse failed", Null, "ParseError")
     ELSE IF ParsedLen(c) = 0
     THEN \* the empty-content write is inside the try block: when it
          \* raises, the parse handler runs
          IF Exists(d) THEN ErrorReturn(w, "empty content")
          ELSE InnerErrorWrite(w, "parse failed", Null, "NotFound")
     ELSE /\ docs' = docs
          /\ SetRun(w, [run[w] EXCEPT !.pc = "store_sql",
                                      !.n = NumChunksSlicing(ParsedLen(c))])
  /\ UNCHANGED <<gen, blobs, chunks, nextChunkId, vectors, nextDoc, queue,
                 deliveries, sent, del, deletes, ret>>

\* dt steps 3-5: s3 get_object, parse_txt_bytes for text/plain (any other
\* type is recorded as error and the run returns), the empty-text check
\* and the slicing into chunks.  The two error writes that return are
\* inside try/except ValueError, which does not catch the update's
\* NotFound
LoadAndParseTask(w, ioOk, parseOk) ==
  /\ run[w].pc = "load"
  /\ gen.run = "dt"
  /\ LET d == run[w].doc
         c == run[w].content
     IN
     IF ~(ioOk /\ d \in blobs)
     THEN InnerErrorWrite(w, "S3 download failed", Null, "S3Error")
     ELSE IF ~Exists(d) /\ (c.mime # "text/plain" \/ (parseOk /\ ParsedLen(c) = 0))
     THEN /\ docs' = docs
          /\ SetRun(w, ToHandler(run[w], "NotFound"))
     ELSE IF c.mime # "text/plain"
     THEN ErrorReturn(w, "unsupported type")
     ELSE IF ~parseOk
     THEN InnerErrorWrite(w, "parse failed", Null, "ParseError")
     ELSE IF ParsedLen(c) = 0
     THEN ErrorReturn(w, "empty content")
     ELSE /\ docs' = docs
          /\ SetRun(w, [run[w] EXCEPT !.pc = "store_sql",
                                      !.n = NumChunksTask(ParsedLen(c))])
  /\ UNCHANGED <<gen, blobs, chunks, nextChunkId, vectors, nextDoc, queue,
                 deliveries, sent, del, deletes, ret>>

\* ip steps 1-2: load_documents (UnstructuredLoader.load reads and parses
\* the file), split_documents and the zero-chunk check.  The loader is
\* given the file path only: the document's content_type is not read, the
\* loader finds out the file type itself, so whether a file of another type
\* than the enumerated ones is parsed (detected) is up to the loader
LoadAndSplit(w, ioOk, detected) ==
  /\ run[w].pc = "load"
  /\ gen.run = "ip"
  /\ LET d == run[w].doc
         c == run[w].content
         n == NumChunksSplitter(ParsedLen(c))
     IN
     IF ~(ioOk /\ d \in blobs /\ (c.mime \in SupportedMime \/ detected))
     THEN /\ docs' = docs
          /\ SetRun(w, ToHandler(run[w], "LoadError"))
     ELSE IF n = 0
     THEN IF Exists(d) THEN ErrorReturn(w, "empty content")
          ELSE /\ docs' = docs
               /\ SetRun(w, ToHandler(run[w], "NotFound"))
     ELSE /\ docs' = docs
          /\ SetRun(w, [run[w] EXCEPT !.pc = "store_sql", !.n = n])
  /\ UNCHANGED <<gen, blobs, chunks, nextChunkId, vectors, nextDoc, queue,
                 deliveries, sent, del, deletes, ret>>

\* the step that follows the bulk insert: document_task.py has a TODO where
\* the others embed the chunks and write the vector index
AfterStoreChunks == IF gen.run = "dt" THEN "ready" ELSE "vector"

\* add_chunks_for_document / store_to_sql: one bulk insert, all or nothing;
\* when it fails the session may be left unusable (abort), and then the
\* error write of the inner except block, which goes through the same
\* session, raises in its turn;
\* the foreign key rejects rows for a document that no longer exists
StoreChunks(w, dbOk, abort) ==
  /\ run[w].pc = "store_sql"
  /\ LET d == run[w].doc
         n == run[w].n
     IN
     IF dbOk /\ ForeignKeyHolds(docs, d)
     THEN /\ chunks' = CreateBulk(chunks, NewChunkRows(d, n, nextChunkId))
          /\ nextChunkId' = nextChunkId + n
          /\ SetRun(w, [run[w] EXCEPT !.pc = AfterStoreChunks,
                                      !.created = NewChunkIds(n, nextChunkId)])
          /\ docs' = docs
     ELSE /\ UNCHANGED <<chunks, nextChunkId>>
          /\ IF abort
             THEN /\ docs' = docs
                  /\ SetRun(w, ToHandler(Aborted(run[w]),
                                         IF gen.run # "ip" THEN "SessionError"
                                         ELSE "DbChunkError"))
             ELSE IF gen.run # "ip"
             THEN InnerErrorWrite(w, "store chunks failed", Null,
                                  "DbChunkError")
             ELSE /\ docs' = docs
                  /\ SetRun(w, ToHandler(run[w], "DbChunkError"))
  /\ UNCHANGED <<gen, blobs, vectors, nextDoc, queue, deliveries, sent, del,
                 deletes, ret>>

\* dp steps 7-8: get_embeddings over the created chunks, then
\* chroma_collection.add(ids=[str(chunk.id) ...]);
\* ip step 4: store_to_vector_db (add_documents embeds and adds)
EmbedAndStore(w, embedOk, chromaOk) ==
  /\ run[w].pc = "vector"
  /\ IF embedOk /\ chromaOk
     THEN /\ vectors' = vectors \cup VectorEntries(run[w].doc, run[w].created)
          /\ SetRun(w, [run[w] EXCEPT !.pc = "ready"])
          /\ docs' = docs
     ELSE /\ vectors' = vectors
          /\ IF gen.run = "dp"
             THEN IF ~embedOk
                  THEN InnerErrorWrite(w, "embedding failed",
                                       Len(run[w].created), "EmbedError")
                  ELSE InnerErrorWrite(w, "vector store failed",
                                       Len(run[w].created), "ChromaError")
             ELSE /\ docs' = docs
                  /\ SetRun(w, ToHandler(run[w], "VectorStoreError"))
  /\ UNCHANGED <<gen, blobs, chunks, nextChunkId, nextDoc, queue, deliveries, sent,
                 del, deletes, ret>>

\* the number the final write records: dp counts the created rows, ip the
\* split documents
ChunkCountToRecord(r) == IF gen.run # "ip" THEN Len(r.created) ELSE r.n

\* last step: update_document_processing_info(status="ready",
\* set_processed_now=True, number_of_chunks=..., error_message=None)
MarkReady(w, dbOk) ==
  /\ run[w].pc = "ready"
  /\ LET d == run[w].doc IN
     IF ~dbOk
     THEN /\ docs' = docs
          /\ SetRun(w, ToHandler(Aborted(run[w]), "DbError"))
     ELSE IF Exists(d)
     THEN /\ docs' = [docs EXCEPT ![d] =
                 UpdateInfo(@, "ready", ChunkCountToRecord(run[w]), NullStr,
                            TRUE)]
          /\ SetRun(w, Finish(run[w], "returned_ok"))
     ELSE /\ docs' = docs
          /\ SetRun(w, ToHandler(run[w], "NotFound"))
  /\ UNCHANGED <<gen, blobs, chunks, nextChunkId, vectors, nextDoc, queue,
                 deliveries, sent, del, deletes, ret>>

\* the exception that leaves the top-level except block: dp guards the final
\* write with try/except and re-raises e; in ip the exception of a failing
\* final write replaces e
ExceptionRaised(exc, exists, dbOk) ==
  IF gen.run # "ip" \/ (exists /\ dbOk) THEN exc
  ELSE IF ~dbOk THEN "DbError" ELSE "NotFound"

\* top-level except block: record status error (dp: through a new session),
\* then raise to the task layer
Handler(w, dbOk) ==
  /\ run[w].pc = "handler"
  /\ LET d == run[w].doc IN
     /\ docs' = IF Exists(d) /\ dbOk
                THEN [docs EXCEPT ![d] =
                        UpdateInfo(@, "error", Null, "pipeline error", FALSE)]
                ELSE docs
     /\ SetRun(w, Finish([run[w] EXCEPT
                       !.exc = ExceptionRaised(run[w].exc, Exists(d), dbOk)],
                         "raised"))
  /\ UNCHANGED <<gen, blobs, chunks, nextChunkId, vectors, nextDoc, queue,
                 deliveries, sent, del, deletes, ret>>

\* the worker process is killed between two steps of the run: nothing more
\* is written, not by the except block either
RunCrash(w) ==
  /\ RunInProgress(run[w])
  /\ SetRun(w, Finish(run[w], "crashed"))
  /\ UNCHANGED <<gen, docs, blobs, chunks, nextChunkId, vectors, nextDoc,
                 queue, deliveries, sent, del, deletes, ret>>

(***************************************************************************)
(* delete_document.                                                        *)
(*   "ip"  services/doc_service.py: chunk ids, vectors, file, row          *)
(*   "dp"  source_doc/service.py:   row, then the S3 object                *)
(* wired: whether the service was constructed with a chunk service; the    *)
(* route's get_document_service constructs it without one.                 *)
(***************************************************************************)
DelInProgress == del.pc \in {"vectors", "blob", "row"}

DelFinished == del.pc \in {"done", "raised", "crashed"}

DelEnd(r, pc, exc) == [r EXCEPT !.pc = pc, !.exc = exc, !.ids = {}]

\* the request arrives and the row is fetched (get_by_id / get_document);
\* ip then asks self.chunk_service.get_chunk_ids_by_document_id(document_id)
DeleteStart(d, wired) ==
  /\ del.pc = "idle" \/ DelFinished
  /\ deletes < MaxDeletes
  /\ d < nextDoc
  /\ deletes' = deletes + 1
  /\ LET r == [IdleDel EXCEPT !.doc = d, !.wired = wired]
         ids == GetChunkIdsByDocumentId(chunks, d)
     IN
     del' = IF ~Exists(d) THEN DelEnd(r, "raised", "NotFound")
            ELSE IF gen.del = "dp" THEN [r EXCEPT !.pc = "row"]
            ELSE IF ~wired THEN DelEnd(r, "raised", "AttributeError")
            ELSE [r EXCEPT !.pc = IF ids = {} THEN "blob" ELSE "vectors",
                           !.ids = ids]
  /\ UNCHANGED <<gen, docs, blobs, chunks, nextChunkId, vectors, nextDoc,
                 queue, deliveries, sent, run, ret>>

\* a delete that lets the failure of the vector store reach its caller
VectorDeleteRaises(r, chromaOk) ==
  IF chromaOk THEN [r EXCEPT !.pc = "blob"]
  ELSE DelEnd(r, "raised", "ChromaError")

\* try: vector_store.delete(...) except Exception: logger.error(...); the
\* delete goes on to the file either way
AfterVectorDelete(r, chromaOk) ==
  [r EXCEPT !.pc = "blob", !.logged = ~chromaOk]

\* vector_store.delete(ids=[str(cid) ...]); a failure is only logged
DeleteVectors(chromaOk) ==
  /\ del.pc = "vectors"
  /\ LET keys == {Str(i) : i \in del.ids} IN
     vectors' = IF chromaOk THEN {v \in vectors : v.key \notin keys}
                ELSE vectors
  /\ del' = [AfterVectorDelete(del, chromaOk) EXCEPT
               !.vecRemoved = (vectors' # vectors)]
  /\ UNCHANGED <<gen, docs, blobs, chunks, nextChunkId, nextDoc, queue,
                 deliveries, sent, run, deletes, ret>>

\* ip: os.remove(file_path) when the file exists; dp: s3 delete_object after
\* the row is gone.  A failure propagates to the caller.
DeleteBlob(ioOk) ==
  /\ del.pc = "blob"
  /\ IF del.doc \notin blobs /\ gen.del = "ip"
     THEN /\ del' = [del EXCEPT !.pc = "row"]
          /\ blobs' = blobs
     ELSE IF ioOk
     THEN /\ blobs' = blobs \ {del.doc}
          /\ del' = IF gen.del = "ip"
                    THEN [del EXCEPT !.pc = "row",
                                     !.blobRemoved = (del.doc \in blobs)]
                    ELSE DelEnd([del EXCEPT
                                   !.blobRemoved = (del.doc \in blobs)],
                                "done", NullStr)
     ELSE /\ blobs' = blobs
          /\ del' = DelEnd(del, "raised", "StorageError")
  /\ UNCHANGED <<gen, docs, chunks, nextChunkId, vectors, nextDoc, queue,
                 deliveries, sent, run, deletes, ret>>

\* repository.delete: fetch the row again, delete it, commit; the chunk rows
\* go with it
DeleteRow(dbOk) ==
  /\ del.pc = "row"
  /\ IF ~Exists(del.doc)
     THEN /\ del' = DelEnd(del, "raised", "NotFound")
          /\ UNCHANGED <<docs, chunks>>
     ELSE IF dbOk
     THEN /\ docs' = [docs EXCEPT ![del.doc] = NoDoc]
          /\ chunks' = CascadeDelete(chunks, del.doc)
          /\ del' = IF gen.del = "ip" THEN DelEnd(del, "done", NullStr)
                    ELSE [del EXCEPT !.pc = "blob"]
     ELSE /\ del' = DelEnd(del, "raised", "DbError")
          /\ UNCHANGED <<docs, chunks>>
  /\ UNCHANGED <<gen, blobs, nextChunkId, vectors, nextDoc, queue,
                 deliveries, sent, run, deletes, ret>>

\* the serving process dies in the middle of the delete
DeleteCrash ==
  /\ DelInProgress
  /\ del' = DelEnd(del, "crashed", NullStr)
  /\ UNCHANGED <<gen, docs, blobs, chunks, nextChunkId, vectors, nextDoc,
                 queue, deliveries, sent, run, deletes, ret>>

(***************************************************************************)
(* Retrieval: recall from the vector index, rerank, keep the best top_k.   *)
(*   "dp"  query/service.py retrieve_relevant_chunks (hydrates the ids     *)
(*         against the chunk rows, reranks with core/reranker.py)          *)
(*   "ip"  chains/qa_chain.py get_standalone_retriever, called by          *)
(*         api/query_routes.py (reranks what the vector store returned)    *)
(***************************************************************************)
\* query texts, as sequences of character codes; the empty text is one
Queries == {<<>>, <<1>>, <<2>>}

\* the top_k of a request: around zero, small, and one above the number of
\* neighbours recalled
TopKs == ((0 - 1)..MaxTopK) \cup {INITIAL_RETRIEVAL_TOP_K + 1}

\* the relevance the reranker model gives the pair (query, text of chunk id)
Score(query, id) == (query[1] * id) % NumScores

Min(a, b) == IF a <= b THEN a ELSE b

Max(a, b) == IF a >= b THEN a ELSE b

\* Python's s[:k]
PySlice(s, k) ==
  IF k >= 0 THEN SubSeq(s, 1, Min(k, Len(s)))
  ELSE SubSeq(s, 1, Max(Len(s) + k, 0))

RECURSIVE AscendingIds(_)
\* the ids of a result set in the order the store hands them out
AscendingIds(S) ==
  IF S = {} THEN <<>>
  ELSE LET m == CHOOSE x \in S : \A y \in S : x <= y
       IN <<m>> \o AscendingIds(S \ {m})

RECURSIVE InsertDesc(_, _)
\* x placed behind every element whose score is not smaller
InsertDesc(sorted, x) ==
  IF sorted = <<>> THEN <<x>>
  ELSE IF Head(sorted).score >= x.score
  THEN <<Head(sorted)>> \o InsertDesc(Tail(sorted), x)
  ELSE <<x>> \o sorted

\* the scored pairs left in input order
SortNone(s) == s

RECURSIVE SortDesc(_)
\* list.sort(key=score, reverse=True) / sorted(..., reverse=True): stable
SortDesc(s) ==
  IF s = <<>> THEN <<>>
  ELSE InsertDesc(SortDesc(SubSeq(s, 1, Len(s) - 1)), s[Len(s)])

\* the pairs (document, score) the reranker scores, in input order
Scored(query, ids, docOf, src) ==
  [i \in 1..Len(ids) |-> [id |-> ids[i], doc |-> docOf[ids[i]], src |-> src,
                          score |-> Score(query, ids[i])]]

\* collection.query(n_results=top_k): the ids of the nearest entries
NearestKeys(vs, top_k) ==
  IF Cardinality(vs) <= top_k THEN {v.key : v \in vs}
  ELSE CHOOSE K \in SUBSET {v.key : v \in vs} : Cardinality(K) = top_k

RetOf(kind, outcome, query, top_k, cands, reranked, result) ==
  [kind |-> kind, outcome |-> outcome, query |-> query, top_k |-> top_k,
   cands |-> cands, reranked |-> reranked, result |-> result]

\* the record of a call together with what the serving process did on the
\* way
Traced(r, fault, embed_lane, rerank_lane, invoked) ==
  [kind |-> r.kind, outcome |-> r.outcome, query |-> r.query,
   top_k |-> r.top_k, cands |-> r.cands, reranked |-> r.reranked,
   result |-> r.result, fault |-> fault, embed_lane |-> embed_lane,
   rerank_lane |-> rerank_lane, invoked |-> invoked, llm |-> "none",
   answer |-> "none"]

\* the step of a retrieve call that raises, if any
RetrieveFaults == {"none", "embed", "search", "db", "rerank"}

\* retrieve_relevant_chunks(query_text, top_k_final_reranked): the embedding
\* and the rerank run under asyncio.to_thread; rerank_documents loads the
\* reranker model before it looks at its arguments
RetrieveRelevantChunks(query, top_k, fault) ==
  LET ids == {IntOf(k) : k \in NearestKeys(vectors, INITIAL_RETRIEVAL_TOP_K)}
      rows == GetByIds(chunks, ids)
      docOf == [i \in ChunkIds(rows) |->
                  (CHOOSE c \in rows : c.id = i).doc]
      cands == AscendingIds(ChunkIds(rows))
      reranked == IF query = <<>> THEN <<>>
                  ELSE SortDesc(Scored(query, cands, docOf, "chunk_store"))
      top == PySlice(reranked, top_k)
      \* the scores are left behind: only the chunk objects are returned
      final == [i \in 1..Len(top) |-> [top[i] EXCEPT !.score = Null]]
  IN
  IF fault \in {"embed", "search", "db"} \/ ids = {} \/ rows = {}
  THEN Traced(RetOf("retrieve", "ok", query, top_k, {}, FALSE, <<>>),
              IF fault \in {"embed", "search"} \/ (fault = "db" /\ ids # {})
              THEN fault ELSE "none",
              "thread", "none", FALSE)
  ELSE IF fault = "rerank"
  THEN Traced(RetOf("retrieve", "ok", query, top_k, ChunkIds(rows), FALSE,
                    <<>>),
              fault, "thread", "thread", TRUE)
  ELSE Traced(RetOf("retrieve", "ok", query, top_k, ChunkIds(rows), TRUE,
                    final),
              "none", "thread", "thread", TRUE)

\* POST /query/retrieve-chunks of query/routes.py
Retrieve(query, top_k, fault) ==
  /\ gen.run = "dp"
  /\ ret' = RetrieveRelevantChunks(query, top_k, fault)
  /\ UNCHANGED <<gen, docs, blobs, chunks, nextChunkId, vectors, nextDoc,
                 queue, deliveries, sent, run, del, deletes>>

\* the scores written into the entries of the collection
EntriesScored(vs, ids) ==
  {IF IntOf(v.key) \in ids
   THEN [key |-> v.key, doc |-> v.doc, relevance_score |-> TRUE]
   ELSE v : v \in vs}

\* the collection after rerank_qwen_documents has set
\* metadata["relevance_score"] on the candidates ids: the candidates are the
\* Document objects the retriever built for this call, the entries of the
\* collection are not written
EntriesAfterScoring(vs, ids) == vs

\* the guard with the candidate list left out
NothingToRerankQueryOnly(query, ids) == query = <<>>

\* rerank_qwen_documents: if not query or not documents: return []
NothingToRerank(query, ids) == query = <<>> \/ ids = {}

\* POST /query/retrieve-chunks of api/query_routes.py: RetrieveRequest
\* validates 0 < top_k <= 100, then get_standalone_retriever(query, top_k);
\* an exception becomes the route's {"error": ...}.  The recall is awaited
\* (vector_retriever.ainvoke), rerank_qwen_documents is called in the
\* coroutine itself and returns [] before it touches the model when the
\* query or the candidate list is empty
StandaloneRetrieve(query, top_k, fault) ==
  /\ gen.run = "ip"
  /\ LET keys == NearestKeys(vectors, INITIAL_RETRIEVAL_TOP_K)
         docOf == [i \in {IntOf(k) : k \in keys} |->
                     (CHOOSE v \in vectors : IntOf(v.key) = i).doc]
         ids == {IntOf(k) : k \in keys}
         cands == AscendingIds(ids)
         top == PySlice(SortDesc(Scored(query, cands, docOf, "vector_store")),
                        top_k)
     IN
     ret' = IF ~(top_k > 0 /\ top_k <= 100)
            THEN Traced(RetOf("standalone", "rejected", query, top_k, {},
                              FALSE, <<>>),
                        "none", "none", "none", FALSE)
            ELSE IF fault \in {"embed", "search"}
            THEN Traced(RetOf("standalone", "error", query, top_k, {}, FALSE,
                              <<>>),
                        fault, "thread", "none", FALSE)
            ELSE IF NothingToRerank(query, ids)
            THEN Traced(RetOf("standalone", "ok", query, top_k, ids, TRUE,
                              <<>>),
                        "none", "thread", "inline", FALSE)
            ELSE IF fault = "rerank"
            THEN Traced(RetOf("standalone", "error", query, top_k, ids, FALSE,
                              <<>>),
                        fault, "thread", "inline", TRUE)
            ELSE Traced(RetOf("standalone", "ok", query, top_k, ids, TRUE,
                              top),
                        "none", "thread", "inline", TRUE)
  /\ vectors' =
       IF ret'.invoked /\ ret'.reranked
       THEN EntriesAfterScoring(vectors, ret'.cands)
       ELSE vectors
  /\ UNCHANGED <<gen, docs, blobs, chunks, nextChunkId, nextDoc, queue,
                 deliveries, sent, run, del, deletes>>

\* the parameters generate_text_from_llm declares
LlmParameters ==
  {"prompt", "system_prompt", "max_new_tokens", "temperature", "top_p"}

\* the keyword arguments generate_answer_from_query calls it with
LlmKeywords == {"prompt", "max_tokens", "temperature", "top_p", "stop"}

\* how the call of generate_text_from_llm ends: a keyword the function does
\* not declare is a TypeError at the call; a failure of the model is
\* re-raised as RuntimeError
GenerateTextFromLlm(keywords, llmOk) ==
  IF ~(keywords \subseteq LlmParameters) THEN "TypeError"
  ELSE IF llmOk THEN "text"
  ELSE "RuntimeError"

\* the answer generate_answer_from_query returns: the generated text, the
\* message that carries the RuntimeError's text, or the fixed message of
\* the except Exception branch
AnswerOf(llm) ==
  IF llm = "text" THEN "generated"
  ELSE IF llm = "RuntimeError" THEN "error_with_cause"
  ELSE "unknown_error"

\* POST /query/ask of query/routes.py: generate_answer_from_query retrieves
\* the context with top_k = FINAL_CONTEXT_TOP_N, calls the LLM under
\* asyncio.to_thread and returns query, answer and context
Ask(query, fault, llmOk) ==
  /\ gen.run = "dp"
  /\ LET r == RetrieveRelevantChunks(query, FINAL_CONTEXT_TOP_N, fault)
         llm == GenerateTextFromLlm(LlmKeywords, llmOk)
     IN ret' = [r EXCEPT !.kind = "ask", !.llm = llm, !.answer = AnswerOf(llm)]
  /\ UNCHANGED <<gen, docs, blobs, chunks, nextChunkId, vectors, nextDoc,
                 queue, deliveries, sent, run, del, deletes>>

\* POST /query/ask/stream of api/query_routes.py: the dependency
\* get_query_service awaits QueryService.create(), which
\* services/query_service.py does not define, so the request raises before
\* the chain is called
AskStream(query) ==
  /\ gen.run = "ip"
  /\ ret' = Traced(RetOf("ask_stream", "raised", query, 0, {}, FALSE, <<>>),
                   "none", "none", "none", FALSE)
  /\ UNCHANGED <<gen, docs, blobs, chunks, nextChunkId, vectors, nextDoc,
                 queue, deliveries, sent, run, del, deletes>>

(***************************************************************************)
(* Specification                                                           *)
(***************************************************************************)
Next ==
  \/ \E c \in Uploads, sendOk \in BOOLEAN, cleanupOk \in BOOLEAN :
        AddDocument(c, sendOk, cleanupOk)
  \/ \E w \in Workers, d \in DocIds : TaskStart(w, d)
  \/ \E w \in Workers, ok \in BOOLEAN : SetProcessing(w, ok)
  \/ \E w \in Workers, io \in BOOLEAN, ok \in BOOLEAN : LoadAndParse(w, io, ok)
  \/ \E w \in Workers, io \in BOOLEAN, ok \in BOOLEAN :
        LoadAndParseTask(w, io, ok)
  \/ \E w \in Workers, io \in BOOLEAN, det \in BOOLEAN :
        LoadAndSplit(w, io, det)
  \/ \E w \in Workers, ok \in BOOLEAN, abort \in BOOLEAN :
        StoreChunks(w, ok, abort)
  \/ \E w \in Workers, e \in BOOLEAN, c \in BOOLEAN : EmbedAndStore(w, e, c)
  \/ \E w \in Workers, ok \in BOOLEAN : MarkReady(w, ok)
  \/ \E w \in Workers, ok \in BOOLEAN : Handler(w, ok)
  \/ \E w \in Workers : RunCrash(w)
  \/ \E d \in DocIds, wired \in BOOLEAN : DeleteStart(d, wired)
  \/ \E ok \in BOOLEAN : DeleteVectors(ok)
  \/ \E ok \in BOOLEAN : DeleteBlob(ok)
  \/ \E ok \in BOOLEAN : DeleteRow(ok)
  \/ DeleteCrash

Spec == Init /\ [][Next]_vars

(***************************************************************************)
(* Retrieval and deletion over stores that hold ingested documents         *)
(***************************************************************************)
\* the upload whose ingestion succeeds
TextUpload == [mime |-> "text/plain", len |-> 513, blank |-> FALSE]

ChunkCount(content) ==
  IF gen.run = "dp" THEN NumChunksSlicing(ParsedLen(content))
  ELSE IF gen.run = "dt" THEN NumChunksTask(ParsedLen(content))
  ELSE NumChunksSplitter(ParsedLen(content))

\* the row of a document after add_document and one successful run
IngestedDocument(content, n) ==
  UpdateInfo(NewDocument(content), "ready", n, NullStr, TRUE)

\* documents 1..k were uploaded and ingested one after the other; with k = 0
\* the stores are as empty as at application start
InitQuery ==
  /\ gen \in {[run |-> v, del |-> v] : v \in Variants}
  /\ \E k \in 0..MaxDocs :
       LET n == ChunkCount(TextUpload)
           first(d) == (d - 1) * n + 1
       IN
       /\ docs = [d \in DocIds |-> IF d <= k
                                   THEN IngestedDocument(TextUpload, n)
                                   ELSE NoDoc]
       /\ blobs = 1..k
       /\ chunks = UNION {NewChunkRows(d, n, first(d)) : d \in 1..k}
       /\ vectors = UNION {VectorEntries(d, NewChunkIds(n, first(d))) :
                             d \in 1..k}
       /\ nextChunkId = k * n + 1
       /\ nextDoc = k + 1
       /\ deliveries = k
       /\ sent = 1..k
  /\ queue = [d \in DocIds |-> 0]
  /\ run = [w \in Workers |-> IdleRun]
  /\ del = IdleDel
  /\ deletes = 0
  /\ ret = NoRet

NextQuery ==
  \/ \E q \in Queries, k \in TopKs, f \in RetrieveFaults : Retrieve(q, k, f)
  \/ \E q \in Queries, k \in TopKs, f \in RetrieveFaults \ {"db"} :
        StandaloneRetrieve(q, k, f)
  \/ \E q \in Queries, f \in RetrieveFaults, ok \in BOOLEAN : Ask(q, f, ok)
  \/ \E q \in Queries : AskStream(q)
  \/ \E d \in DocIds, wired \in BOOLEAN : DeleteStart(d, wired)
  \/ \E ok \in BOOLEAN : DeleteVectors(ok)
  \/ \E ok \in BOOLEAN : DeleteBlob(ok)
  \/ \E ok \in BOOLEAN : DeleteRow(ok)
  \/ DeleteCrash

SpecQuery == InitQuery /\ [][NextQuery]_vars


(***************************************************************************)
(* Properties                                                              *)
(***************************************************************************)
\* worker w writes status ready in this step and returns
EndsReady(w) == run[w].pc = "ready" /\ run'[w].pc = "returned_ok"

\* worker w leaves the top-level except block in this step
EndsRaised(w) == run[w].pc = "handler" /\ run'[w].pc = "raised"

\* no other worker is in the middle of a run for document d
NoOtherRun(w, d) ==
  \A u \in Workers : (u # w /\ run[u].doc = d) => WorkerFree(u)

CreatedIds(r) == {r.created[i] : i \in 1..Len(r.created)}

HasVector(vs, id) == \E v \in vs : v.key = Str(id)

\* C1: when a run on a document ends ready and no other run of that
\* document is in flight, the chunk rows of the document are exactly the
\* rows this run created: no row of an earlier run remains.
C1_RerunReplacesChunkSet ==
  [][\A w \in Workers :
       (EndsReady(w) /\ NoOtherRun(w, run[w].doc))
         => ChunkIds(ChunksOf(chunks', run[w].doc)) = CreatedIds(run[w])]_vars

\* C2: whenever a run ends ready for document D, number_of_chunks of D is
\* the number of chunk rows of D and each of those rows has a vector entry
\* keyed by its id.
C2_ReadyCountMatchesRows ==
  [][\A w \in Workers :
       EndsReady(w) =>
         LET d == run[w].doc IN
         /\ docs'[d].number_of_chunks = Cardinality(ChunksOf(chunks', d))
         /\ \A c \in ChunksOf(chunks', d) : HasVector(vectors', c.id)]_vars

StatusChanges(d) ==
  /\ docs[d] # NoDoc
  /\ docs'[d] # NoDoc
  /\ docs'[d].status # docs[d].status

Created(d) == docs[d] = NoDoc /\ docs'[d] # NoDoc

SpecTransitions ==
  { <<"uploaded", "processing">>, <<"processing", "ready">>,
    <<"processing", "error">>, <<"error", "processing">> }

\* what overlapping runs, a redelivery after success and a failing
\* processing write add
ObservedTransitions ==
  SpecTransitions \cup
  { <<"ready", "processing">>, <<"ready", "error">>, <<"error", "ready">>,
    <<"uploaded", "error">> }

\* C3 (as stated): a document is created uploaded and its status only
\* changes uploaded->processing, processing->ready, processing->error or
\* error->processing.
C3_OnlySpecTransitions ==
  [][\A d \in DocIds :
       /\ Created(d) => docs'[d].status = "uploaded"
       /\ StatusChanges(d) =>
            <<docs[d].status, docs'[d].status>> \in SpecTransitions]_vars

\* C3 (amended): a document is created uploaded and never returns to
\* uploaded; besides the four transitions of the state machine the status
\* also goes ready->processing (a run on a ready document), ready->error and
\* error->ready (overlapping runs) and uploaded->error (the processing write
\* failed); it never goes from uploaded to ready.
C3_StatusTransitions ==
  [][\A d \in DocIds :
       /\ Created(d) => docs'[d].status = "uploaded"
       /\ StatusChanges(d) =>
            <<docs[d].status, docs'[d].status>> \in ObservedTransitions]_vars

\* C3 witness: a run set a document to processing after another run had
\* ended ready for it.
C3_Witness ==
  \E d \in DocIds, w \in Workers, u \in Workers :
    /\ w # u
    /\ run[w].pc = "returned_ok" /\ run[w].doc = d
    /\ run[u].pc = "load" /\ run[u].doc = d
    /\ docs[d] # NoDoc /\ docs[d].status = "processing"

\* C4: when the embedding of a run's chunks fails after the bulk insert, at
\* the end of the run the document has status error, number_of_chunks is
\* the number of rows the run inserted, and those rows are still there.
C4_EmbedFailureKeepsCount ==
  [][\A w \in Workers :
       (EndsRaised(w) /\ run[w].exc = "EmbedError" /\ Exists(run[w].doc))
         => LET d == run[w].doc IN
            /\ docs'[d].status = "error"
            /\ docs'[d].number_of_chunks = Len(run[w].created)
            /\ CreatedIds(run[w]) \subseteq ChunkIds(ChunksOf(chunks', d))]_vars

\* C5: when a step of a run raised, at the end of the run the document (if
\* it still exists) has status error with an error message, and the
\* exception raised to the task layer is the one that was caught.
C5_RaisedEndsInError ==
  [][\A w \in Workers :
       EndsRaised(w)
         => /\ Exists(run[w].doc) =>
                 /\ docs'[run[w].doc].status = "error"
                 /\ docs'[run[w].doc].error_message # NullStr
            /\ run'[w].exc = run[w].exc]_vars

\* C6: after an interrupted delete_document (crash or exception) there is
\* no live Document row whose vector entries or blob the delete has already
\* removed.
C6_InterruptedDeleteNoDangling ==
  (del.pc \in {"raised", "crashed"} /\ Exists(del.doc))
    => (~del.vecRemoved /\ ~del.blobRemoved)

\* C7: delete_document of an existing document, on the service the delete
\* route constructs, completes: the row and its chunk rows are gone and no
\* vector entry of the document is left.
C7_RouteDeleteCompletes ==
  (gen.del = "ip" /\ DelFinished /\ ~del.wired /\ del.exc # "NotFound")
    => /\ del.pc = "done"
       /\ ~Exists(del.doc)
       /\ ChunksOf(chunks, del.doc) = {}
       /\ \A v \in vectors : v.doc # del.doc

\* C8: once a delete and every ingestion run have finished, no chunk row
\* references a document that does not exist.
C8_NoOrphanChunks ==
  (DelFinished /\ \A w \in Workers : WorkerFree(w))
    => \A c \in chunks : Exists(c.doc)

\* C8 witness: the only run there was inserted its chunk rows, the document
\* was deleted under it, and the run ended on the missing row.
C8_Witness ==
  /\ del.pc = "done"
  /\ deliveries = 1
  /\ nextChunkId > 1
  /\ \A u \in Workers : WorkerFree(u)
  /\ \E w \in Workers :
       /\ run[w].pc = "raised"
       /\ run[w].doc = del.doc
       /\ run[w].exc = "NotFound"

ResultIds(r) == {r.result[i].id : i \in 1..Len(r.result)}

\* C9: every chunk a retrieve call returns was read from a chunk row that
\* exists when the call hydrates; a vector hit without a chunk row is not
\* returned.
C9_HydratedFromChunkStore ==
  [][ret' # ret =>
       \A i \in 1..Len(ret'.result) :
         /\ ret'.result[i].src = "chunk_store"
         /\ ret'.result[i].id \in ChunkIds(chunks')]_vars

\* the result of a call is the min(top_k, n) best of its n candidates, best
\* first
BestFirst(r) ==
  LET res == r.result
      k == Min(r.top_k, Cardinality(r.cands))
      sc(id) == Score(r.query, id)
  IN
  /\ Len(res) = k
  /\ Cardinality(ResultIds(r)) = k
  /\ ResultIds(r) \subseteq r.cands
  /\ \A i \in 1..Len(res), j \in 1..Len(res) :
       i < j => sc(res[i].id) >= sc(res[j].id)
  /\ \A c \in r.cands \ ResultIds(r), i \in 1..Len(res) :
       sc(res[i].id) >= sc(c)

Answered(r) == r.kind # "none" /\ r.outcome = "ok" /\ r.top_k >= 1

\* C10 (as stated): for n hydrated candidates and top_k >= 1 retrieve
\* returns exactly the min(top_k, n) highest-scoring candidates in
\* non-increasing score order.
C10_ReturnsTopK == Answered(ret) => BestFirst(ret)

\* C10 (amended): for a non-empty query whose rerank returned, retrieve
\* returns exactly the min(top_k, n) highest-scoring of the n candidates in
\* non-increasing score order; for an empty query, or when the rerank
\* failed, it returns no chunk.
C10_RerankedTopK ==
  Answered(ret) =>
    IF ret.reranked /\ ret.query # <<>> THEN BestFirst(ret)
    ELSE ret.result = <<>>

\* C10 witness: a call with more candidates than top_k returned top_k of
\* them, of different scores.
C10_Witness ==
  /\ Answered(ret) /\ ret.reranked /\ ret.query # <<>>
  /\ Cardinality(ret.cands) > ret.top_k
  /\ Len(ret.result) = ret.top_k
  /\ \E i \in 1..Len(ret.result), j \in 1..Len(ret.result) :
       Score(ret.query, ret.result[i].id) > Score(ret.query, ret.result[j].id)

\* a call of one of the two retrieve functions
IsRetrieve(r) == r.kind \in {"retrieve", "standalone"}

\* C11: when embedding the query or searching the vector index fails
\* during a retrieve call, the call returns an empty result to its caller;
\* it neither propagates the failure nor returns an error value.
C11_RecallFailureGivesEmpty ==
  (IsRetrieve(ret) /\ ret.fault \in {"embed", "search"}) =>
    (ret.outcome = "ok" /\ ret.result = <<>>)

\* C12: a retrieve call against an empty vector index, where the recall
\* yields no candidate, returns an empty list without raising, and the
\* rerank is skipped: the reranker model is not reached.
C12_EmptyIndexGivesEmpty ==
  [][(ret' # ret /\ IsRetrieve(ret') /\ vectors = {}
        /\ ret'.fault = "none" /\ ret'.outcome # "rejected") =>
       (/\ ret'.outcome = "ok"
        /\ ret'.result = <<>>
        /\ ret'.cands = {}
        /\ ~ret'.invoked)]_vars

\* C12 witness: a non-empty query was answered with the empty list over an
\* empty vector index.
C12_Witness ==
  /\ vectors = {}
  /\ IsRetrieve(ret) /\ ret.query # <<>> /\ ret.top_k >= 1
  /\ ret.fault = "none" /\ ret.outcome = "ok"
  /\ ret.result = <<>> /\ ~ret.invoked

\* run w holds the file of a supported type whose parsed, normalised text
\* is empty, and is about to load and parse it
AtLoadOfBlank(w) ==
  /\ run[w].pc = "load"
  /\ run[w].content.mime \in SupportedMime
  /\ ParsedLen(run[w].content) = 0

\* the exceptions that end the load step before the text is looked at
LoadFailures == {"S3Error", "ParseError", "LoadError", "NotFound"}

NothingStored(cs, vs, d) ==
  ChunksOf(cs, d) = {} /\ \A v \in vs : v.doc # d

\* C14: an ingestion run for a document whose mime type is not one of the
\* supported types ends with document status error, and the document has
\* no chunk row and no vector entry.
C14_UnsupportedEndsInError ==
  [][\A w \in Workers :
       LET d == run[w].doc IN
       (/\ ~RunFinished(run[w]) /\ RunFinished(run'[w])
        /\ run'[w].pc # "crashed"
        /\ Exists(d) /\ docs'[d].status # "absent"
        /\ docs[d].content.mime \notin SupportedMime) =>
         /\ docs'[d].status = "error"
         /\ NothingStored(chunks', vectors', d)]_vars

\* the sequence numbers of the chunk rows of document d
SeqNumbers(cs, d) == {c.seq : c \in ChunksOf(cs, d)}

\* C15: in every reachable state no two chunk rows of the same document
\* share a sequence number, and the sequence numbers of a document's n
\* chunk rows are exactly 0..n-1.
C15_SequenceNumbersContiguous ==
  \A d \in DocIds :
    LET n == Cardinality(ChunksOf(chunks, d)) IN
    /\ \A a \in ChunksOf(chunks, d), b \in ChunksOf(chunks, d) :
         a.seq = b.seq => a = b
    /\ SeqNumbers(chunks, d) = 0..(n - 1)

\* C17: when retrieval succeeds but the LLM generation fails, ask does not
\* raise: it returns a result whose answer is an explicit error message
\* that describes the cause of the failure, together with the retrieved
\* context (the result the call record carries).
C17_LlmFailureIsExplained ==
  (/\ ret.kind \in {"ask", "ask_stream"}
   /\ ret.fault = "none" /\ ret.result # <<>>
   /\ ret.llm \notin {"none", "text"}) =>
    (ret.outcome = "ok" /\ ret.answer = "error_with_cause")

\* C16: a retrieve or ask call is a pure consumer of both stores: it leaves
\* every document row, every chunk row and every vector entry unchanged;
\* the relevance scores are on the objects the call returns and nowhere in
\* the stores.  Stated for every step of the query operations that is not
\* a step of a delete.
C16_CallsLeaveStoresUnchanged ==
  [][(ret' # ret \/ del' = del) =>
       (docs' = docs /\ chunks' = chunks /\ vectors' = vectors)]_vars

\* C16 witness: a retrieve call returned chunks with their scores attached
\* while the stores hold the documents, rows and entries of the start.
C16_Witness ==
  /\ IsRetrieve(ret) /\ ret.outcome = "ok" /\ ret.invoked
  /\ ret.result # <<>>
  /\ \A i \in 1..Len(ret.result) : ret.result[i].score # Null
  /\ \A d \in DocIds :
       Exists(d) =>
         /\ docs[d].status = "ready"
         /\ Cardinality(ChunksOf(chunks, d)) = docs[d].number_of_chunks
         /\ \A c \in ChunksOf(chunks, d) :
              [key |-> Str(c.id), doc |-> d] \in vectors
  /\ \E d \in DocIds : Exists(d)

\* what the stores hold for document d
OwnPart(ds, cs, vs, d) == <<ds[d], ChunksOf(cs, d), {v \in vs : v.doc = d}>>

\* worker w takes a step of its run
RunStep(w) == run'[w] # run[w]

\* the run of worker w ends ready with what a run of its document yields
\* when it runs alone: status ready, the count and the rows of the split,
\* one vector entry per row where the pipeline has a vector step
EndsAsAlone(w) ==
  LET d == run[w].doc
      ids == CreatedIds(run[w])
  IN
  /\ docs'[d].status = "ready"
  /\ docs'[d].number_of_chunks = ChunkCount(docs'[d].content)
  /\ Cardinality(ids) = ChunkCount(docs'[d].content)
  /\ \A i \in ids :
       /\ \E c \in chunks' : c.id = i /\ c.doc = d
       /\ AfterStoreChunks = "vector" => [key |-> Str(i), doc |-> d] \in vectors'

\* C18: two ingestion runs on different documents do not interfere: a step
\* of a run changes no row and no vector entry of another document, the
\* rows and entries it adds are new and belong to its own document, and
\* in every interleaving a run that ends ready (no delete involved) ends
\* with the status, rows and entries it yields when it runs alone.
C18_RunsDoNotInterfere ==
  [][\A w \in Workers :
       RunStep(w) =>
         LET d == run'[w].doc IN
         /\ \A e \in DocIds \ {d} :
              OwnPart(docs', chunks', vectors', e)
                = OwnPart(docs, chunks, vectors, e)
         /\ \A c \in chunks' \ chunks :
              c.doc = d /\ c.id \notin ChunkIds(chunks)
         /\ \A v \in vectors' \ vectors :
              v.doc = d /\ ~(\E u \in vectors : u.key = v.key)
         /\ (EndsReady(w) /\ deletes = 0) => EndsAsAlone(w)]_vars

\* C18 witness: two runs on different documents overlapped (the second
\* worker only starts while the first is busy) and both ended ready, each
\* document holding its own rows and entries.
C18_Witness ==
  /\ run[1].pc = "returned_ok" /\ run[2].pc = "returned_ok"
  /\ run[1].doc # run[2].doc
  /\ deletes = 0
  /\ \A w \in Workers :
       LET d == run[w].doc IN
       /\ docs[d].status = "ready"
       /\ Cardinality(ChunksOf(chunks, d)) = ChunkCount(docs[d].content)
       /\ \A c \in ChunksOf(chunks, d) : [key |-> Str(c.id), doc |-> d] \in vectors

\* C19: on the request-serving path every embedding and reranking
\* inference is dispatched to a worker thread and awaited, never run on the
\* serving event loop itself.
C19_InferenceOffTheEventLoop ==
  /\ ret.embed_lane \in {"none", "thread"}
  /\ ret.invoked => ret.rerank_lane = "thread"

\* C20: update_document_processing_info changes only the fields it is
\* given: the call that passes only status (the write of processing) and
\* the call that passes only status and error_message (the error write of
\* the top-level handler) leave number_of_chunks and processed_at of the
\* document as they were.
C20_UpdateKeepsOtherFields ==
  [][\A w \in Workers :
       LET d == run[w].doc IN
       (/\ run[w].pc \in {"set_processing", "handler"}
        /\ RunStep(w)
        /\ Exists(d) /\ docs'[d] # NoDoc) =>
         /\ docs'[d].number_of_chunks = docs[d].number_of_chunks
         /\ docs'[d].processed_at = docs[d].processed_at]_vars

\* worker w enters position pc in this step
Enters(w, pc) == run[w].pc # pc /\ run'[w].pc = pc

\* C21: the steps of a run are sequential and ready is the last write: a
\* run starts embedding only from the bulk insert, whose rows are then in
\* the chunk store; it comes to the ready write only from the vector step,
\* with an entry for each of its chunks written to the vector index; and
\* it writes ready and returns only from there.
C21_ReadyIsLastWrite ==
  [][\A w \in Workers :
       LET d == run'[w].doc
           ids == CreatedIds(run'[w])
       IN
       /\ Enters(w, "vector") =>
            /\ run[w].pc = "store_sql"
            /\ \A i \in ids : \E c \in chunks' : c.id = i /\ c.doc = d
       /\ Enters(w, "ready") =>
            /\ run[w].pc = "vector"
            /\ VectorEntries(d, run'[w].created) \subseteq vectors'
       /\ Enters(w, "returned_ok") => run[w].pc = "ready"]_vars

\* the steps of a run that follow the processing write
LaterSteps == {"load", "store_sql", "vector", "ready"}

\* worker w is killed in this step, at one of the later steps
CrashesLater(w) == run[w].pc \in LaterSteps /\ run'[w].pc = "crashed"

\* no other worker holds or held a run of document d
OnlyRun(w, d) == \A u \in Workers : u # w => run[u].doc # d

C23_AddLeavesRowWithBlob ==
  [][\A d \in DocIds : Created(d) => d \in blobs']_vars

\* C24: once delete_document(D) has returned successfully and no run of D
\* is in flight, the vector index holds no entry of a chunk of D.
C24_NoVectorAfterDelete ==
  (/\ del.pc = "done"
   /\ \A w \in Workers : run[w].doc = del.doc => WorkerFree(w))
    => \A v \in vectors : v.doc # del.doc

\* C25: when the session of a run was left unusable by a database failure,
\* the run still ends with the document (if it exists) in status error: the
\* except block writes through a session of its own.
C25_ErrorWrittenAfterSessionAbort ==
  [][\A w \in Workers :
       (EndsRaised(w) /\ run[w].session = "aborted" /\ Exists(run[w].doc))
         => docs'[run[w].doc].status = "error"]_vars

Rank(pc) ==
  CASE pc = "idle" -> 0
    [] pc = "set_processing" -> 1
    [] pc = "load" -> 2
    [] pc = "store_sql" -> 3
    [] pc = "vector" -> 4
    [] pc = "ready" -> 5
    [] pc = "handler" -> 6
    [] OTHER -> 7

\* worker w returns or raises in this step (it is not killed)
Terminates(w) ==
  /\ RunInProgress(run[w])
  /\ run'[w].pc \in {"returned_ok", "returned_error", "raised"}

\* C27: every step of a run takes it further, so a run that is not killed
\* terminates after at most six steps; and when it terminates the document
\* (if it still exists) has status ready or error.
C27_FinishedRunLeavesReadyOrError ==
  [][\A w \in Workers :
       /\ (RunInProgress(run[w]) /\ RunStep(w)) =>
            Rank(run'[w].pc) > Rank(run[w].pc)
       /\ (Terminates(w) /\ Exists(run[w].doc)) =>
            docs'[run[w].doc].status \in {"ready", "error"}]_vars

\* C28: a failure of the vector deletion in delete_document is only logged:
\* from the vector step the delete goes on to the file (unless the process
\* is killed), never to its caller with an exception, and a delete of
\* services/doc_service.py that completes has removed the file and the
\* row with its chunk rows, whatever the vector step did.
C28_VectorDeleteFailureOnlyLogged ==
  [][/\ (del.pc = "vectors" /\ del' # del) => del'.pc \in {"blob", "crashed"}
     /\ (del'.pc = "done" /\ gen.del = "ip") =>
          /\ ~(docs'[del'.doc] # NoDoc)
          /\ del'.doc \notin blobs'
          /\ ChunksOf(chunks', del'.doc) = {}]_vars

\* the vector deletion failed and was logged, and the delete completed: the
\* file and the row are gone
C28_Witness ==
  /\ del.pc = "done"
  /\ del.logged
  /\ del.blobRemoved
  /\ ~Exists(del.doc)

\* C30: for every retrieve call the query surface accepts, the number of
\* neighbours recalled from the vector index, INITIAL_RETRIEVAL_TOP_K, is
\* at least the requested top_k.
C30_RecallCoversTopK ==
  (IsRetrieve(ret) /\ ret.outcome # "rejected") =>
    INITIAL_RETRIEVAL_TOP_K >= ret.top_k

\* C31: for every top_k the request model accepts, zero and negative values
\* included where no bound is declared, a retrieve call returns at most
\* max(top_k, 0) chunks.
C31_AtMostTopK ==
  (IsRetrieve(ret) /\ ret.outcome = "ok") =>
    Len(ret.result) <= Max(ret.top_k, 0)

\* C32: each chunk a retrieve call returns carries the relevance score the
\* reranker computed for it in that call.
C32_ResultsCarryScore ==
  (IsRetrieve(ret) /\ ret.outcome = "ok") =>
    \A i \in 1..Len(ret.result) :
      ret.result[i].score = Score(ret.query, ret.result[i].id)

(***************************************************************************)
(* The rerank functions, called on their own                               *)
(*   core/reranker.py, core/reranker_qwen.py   rerank_documents            *)
(*   chains/reranker_loader.py                 rerank_qwen_documents       *)
(* modelOk: whether the reranker model can be loaded.                      *)
(***************************************************************************)
MaxCands == 3

\* candidate lists: the chunk ids of the documents handed to the function
CandidateSets == SUBSET (1..MaxCands)

\* what a call of a rerank function gives its caller
RerankOutcome(outcome, result, invoked) ==
  [outcome |-> outcome, result |-> result, invoked |-> invoked]

\* rerank_documents: _load_reranker_model() comes first and raises when the
\* model cannot be loaded; the guard for an empty query or list is next
RerankDocuments(query, cands, modelOk) ==
  LET ids == AscendingIds(cands)
      docOf == [i \in cands |-> 1]
  IN
  IF ~modelOk THEN RerankOutcome("raised", <<>>, FALSE)
  ELSE IF query = <<>> \/ cands = {} THEN RerankOutcome("ok", <<>>, FALSE)
  ELSE RerankOutcome("ok", SortDesc(Scored(query, ids, docOf, "chunk_store")),
                     TRUE)

\* rerank_qwen_documents: the guard comes first, the components are fetched
\* after it
RerankQwenDocuments(query, cands, top_n, modelOk) ==
  LET ids == AscendingIds(cands)
      docOf == [i \in cands |-> 1]
  IN
  IF NothingToRerank(query, cands) THEN RerankOutcome("ok", <<>>, FALSE)
  ELSE IF ~modelOk THEN RerankOutcome("raised", <<>>, FALSE)
  ELSE RerankOutcome("ok",
         PySlice(SortDesc(Scored(query, ids, docOf, "vector_store")), top_n),
         TRUE)

\* the record of a direct call of a rerank function
RerankCall(kind, query, top_n, cands, modelOk, o) ==
  Traced(RetOf(kind, o.outcome, query, top_n, cands, o.invoked, o.result),
         IF modelOk THEN "none" ELSE "rerank", "none", "inline", o.invoked)

CallRerankDocuments(query, cands, modelOk) ==
  /\ ret' = RerankCall("rerank_documents", query, 0, cands, modelOk,
                       RerankDocuments(query, cands, modelOk))
  /\ UNCHANGED <<gen, docs, blobs, chunks, nextChunkId, vectors, nextDoc,
                 queue, deliveries, sent, run, del, deletes>>

\* rerank_documents of core/reranker_qwen.py has the same head
CallRerankDocumentsQwen(query, cands, modelOk) ==
  /\ ret' = RerankCall("rerank_documents_qwen", query, 0, cands, modelOk,
                       RerankDocuments(query, cands, modelOk))
  /\ UNCHANGED <<gen, docs, blobs, chunks, nextChunkId, vectors, nextDoc,
                 queue, deliveries, sent, run, del, deletes>>

CallRerankQwenDocuments(query, cands, top_n, modelOk) ==
  /\ ret' = RerankCall("rerank_qwen_documents", query, top_n, cands, modelOk,
                       RerankQwenDocuments(query, cands, top_n, modelOk))
  /\ UNCHANGED <<gen, docs, blobs, chunks, nextChunkId, vectors, nextDoc,
                 queue, deliveries, sent, run, del, deletes>>

InitRerank ==
  /\ gen \in {[run |-> v, del |-> v] : v \in Variants}
  /\ docs = [d \in DocIds |-> NoDoc]
  /\ blobs = {}
  /\ chunks = {}
  /\ nextChunkId = 1
  /\ vectors = {}
  /\ nextDoc = 1
  /\ queue = [d \in DocIds |-> 0]
  /\ deliveries = 0
  /\ sent = {}
  /\ run = [w \in Workers |-> IdleRun]
  /\ del = IdleDel
  /\ deletes = 0
  /\ ret = NoRet

NextRerank ==
  \/ \E q \in Queries, c \in CandidateSets, ok \in BOOLEAN :
        CallRerankDocuments(q, c, ok)
  \/ \E q \in Queries, c \in CandidateSets, ok \in BOOLEAN :
        CallRerankDocumentsQwen(q, c, ok)
  \/ \E q \in Queries, c \in CandidateSets, k \in TopKs, ok \in BOOLEAN :
        CallRerankQwenDocuments(q, c, k, ok)

SpecRerank == InitRerank /\ [][NextRerank]_vars

IsRerank(r) ==
  r.kind \in {"rerank_documents", "rerank_documents_qwen",
              "rerank_qwen_documents"}

\* C33: a rerank function called with an empty candidate list returns an
\* empty list and does not invoke the model; it returns normally also when
\* the reranker model is unavailable.
C33_EmptyCandidatesReturnEmpty ==
  (IsRerank(ret) /\ ret.cands = {}) =>
    /\ ret.outcome = "ok"
    /\ ret.result = <<>>
    /\ ~ret.invoked

(***************************************************************************)
(* The chunking step, on its own                                           *)
(*   tasks/utils/doc_process.py, tasks/document_task.py   step 5           *)
(* A text is a sequence of characters; " " stands for the separators       *)
(* (blank, newline), the letters for everything else.  chunk_size and      *)
(* chunk_overlap are settings, drawn here from small ranges.               *)
(***************************************************************************)
MaxTextLen == 6
MaxChunkSize == 4

Separator == " "

Alphabet == {"a", "b", Separator}

Texts == UNION {[1..n -> Alphabet] : n \in 0..MaxTextLen}

\* chunk_size, chunk_overlap with chunk_overlap < chunk_size
ChunkSettings ==
  {s \in [chunk_size : 1..MaxChunkSize, chunk_overlap : 0..(MaxChunkSize - 1)] :
     s.chunk_overlap < s.chunk_size}

\* Python's s[i:j] for 0 <= i <= j
PySubstr(s, i, j) == SubSeq(s, i + 1, Min(j, Len(s)))

\* Python's s[k:] for k >= 0
PyDrop(s, k) == SubSeq(s, k + 1, Len(s))

\* a loop that advances by the whole chunk_size
SliceStepNoOverlap(chunk_size, chunk_overlap) == chunk_size

\* the step of range(0, len(raw_text), chunk_size - chunk_overlap)
SliceStep(chunk_size, chunk_overlap) == chunk_size - chunk_overlap

\* chunks_texts_list after the slicing: the list the splitter returned is
\* overwritten by []; a text longer than chunk_size is cut at i = 0, step,
\* 2 * step, ... < len into raw_text[i : i + chunk_size], a shorter text
\* that is not empty is its own chunk.  from and to record the positions
\* [from, to) of the text a chunk was taken from.
SliceChunks(raw_text, chunk_size, chunk_overlap) ==
  LET len == Len(raw_text)
      step == SliceStep(chunk_size, chunk_overlap)
  IN
  IF len > chunk_size
  THEN [k \in 1..CeilDiv(len, step) |->
          LET i == (k - 1) * step
          IN [chunk |-> PySubstr(raw_text, i, i + chunk_size),
              from |-> i, to |-> Min(i + chunk_size, len)]]
  ELSE IF raw_text # <<>>
       THEN <<[chunk |-> raw_text, from |-> 0, to |-> len]>>
       ELSE <<>>

\* a text that waits to be chunked, and a text with its chunks
SplitInput(raw_text, s) ==
  [kind |-> "split_input", text |-> raw_text, chunk_size |-> s.chunk_size,
   chunk_overlap |-> s.chunk_overlap, chunks |-> <<>>]

SplitDone(r) ==
  [r EXCEPT !.kind = "split",
            !.chunks = SliceChunks(r.text, r.chunk_size, r.chunk_overlap)]

\* step 5 of _execute_document_processing_async in doc_process.py
SplitInDocProcess ==
  /\ gen.run = "dp"
  /\ ret.kind = "split_input"
  /\ ret' = SplitDone(ret)
  /\ UNCHANGED <<gen, docs, blobs, chunks, nextChunkId, vectors, nextDoc,
                 queue, deliveries, sent, run, del, deletes>>

\* step 5 of _execute_document_processing_async in document_task.py
SplitInDocumentTask ==
  /\ gen.run = "dt"
  /\ ret.kind = "split_input"
  /\ ret' = SplitDone(ret)
  /\ UNCHANGED <<gen, docs, blobs, chunks, nextChunkId, vectors, nextDoc,
                 queue, deliveries, sent, run, del, deletes>>

InitSplit ==
  /\ gen \in {g \in Generations : g.run \in {"dp", "dt"}}
  /\ docs = [d \in DocIds |-> NoDoc]
  /\ blobs = {}
  /\ chunks = {}
  /\ nextChunkId = 1
  /\ vectors = {}
  /\ nextDoc = 1
  /\ queue = [d \in DocIds |-> 0]
  /\ deliveries = 0
  /\ sent = {}
  /\ run = [w \in Workers |-> IdleRun]
  /\ del = IdleDel
  /\ deletes = 0
  /\ ret \in {SplitInput(t, s) : t \in Texts, s \in ChunkSettings}

NextSplit == SplitInDocProcess \/ SplitInDocumentTask

SpecSplit == InitSplit /\ [][NextSplit]_vars

IsSplit(r) == r.kind = "split"

\* the atomic units of a text: its maximal runs of characters that are not
\* separators
Units(text) ==
  {SubSeq(text, i, j) : <<i, j>> \in
     {p \in (1..Len(text)) \X (1..Len(text)) :
        /\ p[1] <= p[2]
        /\ \A x \in p[1]..p[2] : text[x] # Separator
        /\ (p[1] = 1 \/ text[p[1] - 1] = Separator)
        /\ (p[2] = Len(text) \/ text[p[2] + 1] = Separator)}}

\* C34: every chunk is at most chunk_size long unless it is one atomic unit
\* that is itself longer, and every atomic unit longer than chunk_size is
\* emitted whole, as a chunk of its own.
C34_LongUnitsKeptWhole ==
  IsSplit(ret) =>
    /\ \A k \in 1..Len(ret.chunks) :
          \/ Len(ret.chunks[k].chunk) <= ret.chunk_size
          \/ ret.chunks[k].chunk \in Units(ret.text)
    /\ \A u \in Units(ret.text) :
          Len(u) > ret.chunk_size =>
            \E k \in 1..Len(ret.chunks) : ret.chunks[k].chunk = u

\* chunk 0 whole, then every later chunk without its first chunk_overlap
\* characters, in sequence order
RECURSIVE Reassembled(_, _)
Reassembled(cs, chunk_overlap) ==
  IF cs = <<>> THEN <<>>
  ELSE IF Len(cs) = 1 THEN cs[1].chunk
  ELSE Reassembled(SubSeq(cs, 1, Len(cs) - 1), chunk_overlap)
         \o PyDrop(cs[Len(cs)].chunk, chunk_overlap)

\* C35: for every text and every chunk_size and chunk_overlap with
\* chunk_overlap < chunk_size, chunk 0 followed by the later chunks without
\* their overlapping prefix is the text that was chunked.
C35_ChunksReassembleText ==
  IsSplit(ret) => Reassembled(ret.chunks, ret.chunk_overlap) = ret.text

\* a text cut into three or more chunks that overlap, two different letters
\* among them, whose last chunk is no longer than the overlap
C35_Witness ==
  /\ IsSplit(ret)
  /\ Len(ret.chunks) >= 3
  /\ ret.chunk_overlap > 0
  /\ Len(ret.chunks[Len(ret.chunks)].chunk) <= ret.chunk_overlap
  /\ \E i, j \in 1..Len(ret.text) : ret.text[i] # ret.text[j]
  /\ Reassembled(ret.chunks, ret.chunk_overlap) = ret.text

\* C36: every chunk after the first covers at least one character of the
\* text that its predecessor does not cover; no chunk lies entirely in the
\* overlap with the chunk before it.
C36_ChunkCoversNewText ==
  IsSplit(ret) =>
    \A k \in 2..Len(ret.chunks) : ret.chunks[k].to > ret.chunks[k - 1].to

(***************************************************************************)
(* The answer chain, invoked on its own                                    *)
(*   chains/qa_chain.py   create_rag_qa_chain                              *)
(* cands: the documents the vector retriever recalled for the query.       *)
(* A value that flows through the chain says what it is: the query, the    *)
(* formatted documents, or the fixed sentence for an empty list.           *)
(***************************************************************************)
QueryText(query) == [is |-> "query", query |-> query, docs |-> <<>>]

NothingSent == [is |-> "nothing", query |-> <<>>, docs |-> <<>>]

\* format_docs: the fixed sentence for an empty list, else one numbered
\* entry per document with its relevance_score and content, in list order
FormatDocs(ds) ==
  IF ds = <<>> THEN [is |-> "no_docs_message", query |-> <<>>, docs |-> <<>>]
  ELSE [is |-> "formatted", query |-> <<>>,
        docs |-> [i \in 1..Len(ds) |->
                    [n |-> i, id |-> ds[i].id, score |-> ds[i].score]]]

\* RunnableParallel(context=RunnablePassthrough(),
\*                  question=RunnablePassthrough()): both branches get the
\* input of the step, which is the output of format_docs
PromptInput(x) == [context |-> x, question |-> x]

\* async_rerank: ValueError for an empty question, else
\* rerank_qwen_documents with top_n = FINAL_CONTEXT_TOP_N
AsyncRerank(input, modelOk) ==
  IF input.question = <<>> THEN RerankOutcome("raised", <<>>, FALSE)
  ELSE RerankQwenDocuments(input.question, input.documents,
                           FINAL_CONTEXT_TOP_N, modelOk)

\* the record of an invocation of the chain: the retrieve fields, the
\* prompt the LLM was called with and how the LLM call ended
ChainCall(query, cands, modelOk, o, prompt, llm) ==
  [kind |-> "rag_chain", outcome |-> IF llm = "text" THEN "ok" ELSE "raised",
   query |-> query, top_k |-> FINAL_CONTEXT_TOP_N, cands |-> cands,
   reranked |-> o.outcome = "ok", result |-> o.result,
   fault |-> IF modelOk THEN "none" ELSE "rerank", embed_lane |-> "thread",
   rerank_lane |-> "thread", invoked |-> o.invoked, llm |-> llm,
   answer |-> IF llm = "text" THEN "generated" ELSE "none",
   prompt |-> prompt]

\* rag_chain.ainvoke(query): RunnableParallel(documents, question), then
\* async_rerank, format_docs, RunnableParallel(context, question),
\* prompt_template, llm, StrOutputParser; a step that raises ends the chain
InvokeRagChain(query, cands, modelOk, llmOk) ==
  /\ LET input == [documents |-> cands, question |-> query]
         o == AsyncRerank(input, modelOk)
         prompt == PromptInput(FormatDocs(o.result))
     IN
     ret' = IF o.outcome # "ok"
            THEN ChainCall(query, cands, modelOk, o,
                           PromptInput(NothingSent), "none")
            ELSE ChainCall(query, cands, modelOk, o, prompt,
                           IF llmOk THEN "text" ELSE "RuntimeError")
  /\ UNCHANGED <<gen, docs, blobs, chunks, nextChunkId, vectors, nextDoc,
                 queue, deliveries, sent, run, del, deletes>>

InitChain == InitRerank

NextChain ==
  \E q \in Queries, c \in CandidateSets, ok \in BOOLEAN, llmOk \in BOOLEAN :
     InvokeRagChain(q, c, ok, llmOk)

SpecChain == InitChain /\ [][NextChain]_vars

\* C37: the prompt the answer chain sends to the LLM has the user's query
\* in its question slot and the formatted reranked documents in its context
\* slot.
C37_PromptSlots ==
  (ret.kind = "rag_chain" /\ ret.llm # "none") =>
    /\ ret.prompt.question = QueryText(ret.query)
    /\ ret.prompt.context = FormatDocs(ret.result)

=============================================================================
